---------------------------- MODULE Spec2Model ----------------------------
(***************************************************************************)
(* A model of the ST7789 SPI display driver ST7789U_RPI/ST7789Display.py:  *)
(* the pixel encoder image_to_data and the class ST7789Display, with the   *)
(* platform collaborators (RPi.GPIO, spidev, time.sleep) reduced to what   *)
(* the driver can observe of them: pin levels, the ordered trace of        *)
(* platform calls, and a transfer that may raise.                          *)
(*                                                                         *)
(* Every method is an operator from the platform state before the call to  *)
(* the platform state after it.  A raised exception is carried in the      *)
(* platform state and skips the statements after it, as it does in the     *)
(* Python code, which holds no try/except.                                 *)
(***************************************************************************)
EXTENDS Integers, Sequences, FiniteSets, TLC

VARIABLES
    obj,      \* the ST7789Display instance (its fields), or NoObj
    config,   \* the arguments the instance was constructed with, or NoObj
    gpio,     \* the level of every GPIO line
    call,     \* the last call made: its name and arguments
    log,      \* the platform calls the last call made, in order
    exc,      \* the exception the last call raised, or NoExc
    ret       \* the value the last call returned (None for a procedure)

vars == <<obj, config, gpio, call, log, exc, ret>>

---------------------------------------------------------------------------
(* Bounds of the model.                                                    *)

MaxDim == 2      \* the sides of the small images range over 1..MaxDim
MaxSeed == 6     \* generated images start at palette entries 0..MaxSeed
MaxLen == 4      \* buffers handed to send have 0..MaxLen bytes
MaxChunk == 3    \* chunk_size ranges over 1..MaxChunk
MaxFault == 2    \* a fault hits one of the first or last MaxFault transfers
FrameSide == 46  \* side of the large frame: 2 * 46 * 46 bytes exceed one chunk

---------------------------------------------------------------------------
(* Python values.                                                          *)

None == <<>>
Some(v) == <<v>>
Value(opt) == opt[1]

NoObj == [type |-> "NoObj"]
NoExc == [type |-> "none", msg |-> ""]
ValueError(m) == [type |-> "ValueError", msg |-> m]
IOError == [type |-> "IOError", msg |-> "xfer"]

\* data handed to send: a number or a byte sequence (numbers.Number test)
Number(n) == [tag |-> "Number", val |-> n]
Buffer(s) == [tag |-> "bytes", val |-> s]

Min(a, b) == IF a < b THEN a ELSE b

RECURSIVE BitAnd(_, _)
BitAnd(a, b) ==
    IF a = 0 \/ b = 0 THEN 0
    ELSE (a % 2) * (b % 2) + 2 * BitAnd(a \div 2, b \div 2)

RECURSIVE BitOr(_, _)
BitOr(a, b) ==
    IF a = 0 THEN b
    ELSE IF b = 0 THEN a
    ELSE (IF a % 2 = 1 \/ b % 2 = 1 THEN 1 ELSE 0) + 2 * BitOr(a \div 2, b \div 2)

RECURSIVE Pow2(_)
Pow2(n) == IF n = 0 THEN 1 ELSE 2 * Pow2(n - 1)

\* uint16 shifts (numpy keeps the dtype: the left shift wraps at 16 bits)
Shl16(a, n) == (a * Pow2(n)) % 65536
Shr(a, n) == a \div Pow2(n)

---------------------------------------------------------------------------
(* The opcodes of class ST7789 (module ST7789U_RPI/ST7789.py, imported at  *)
(* line 8), with the values of the ST7789 register map.                    *)

SWRESET == 1
SLPOUT == 17
INVOFF == 32
INVON == 33
DISPON == 41
CASET == 42
RASET == 43
RAMWR == 44
MADCTL == 54
COLMOD == 58
FRMCTR2 == 178
GCTRL == 183
VCOMS == 187
LCMCTRL == 192
VDVVRHEN == 194
VRHS == 195
VDVS == 196
FRCTRL2 == 198
GMCTRP1 == 224
GMCTRN1 == 225

---------------------------------------------------------------------------
(* image_to_data: an image is a sequence of rows, a row a sequence of      *)
(* pixels, a pixel a triple <<R, G, B>> of 8-bit channels.                 *)

Rows(m) == Len(m)
Cols(m) == Len(m[1])

\* numpy.flip(m, 0), numpy.flip(m, 1), numpy.transpose(m, (1, 0, 2))
flip0(m) == [i \in 1..Rows(m) |-> m[Rows(m) + 1 - i]]
flip1(m) == [i \in 1..Rows(m) |-> [j \in 1..Cols(m) |-> m[i][Cols(m) + 1 - j]]]
transpose(m) == [i \in 1..Cols(m) |-> [j \in 1..Rows(m) |-> m[j][i]]]

\* a rotation by k quarter turns the other way round (clockwise)
rot90_clockwise(m, k) ==
    CASE k % 4 = 0 -> m
      [] k % 4 = 2 -> flip1(flip0(m))
      [] k % 4 = 1 -> flip1(transpose(m))
      [] k % 4 = 3 -> transpose(flip1(m))

\* numpy.rot90(m, k) in the plane of axes (0, 1)
rot90(m, k) ==
    CASE k % 4 = 0 -> m
      [] k % 4 = 2 -> flip1(flip0(m))
      [] k % 4 = 1 -> transpose(flip1(m))
      [] k % 4 = 3 -> flip1(transpose(m))

\* ndarray.byteswap() of one uint16
byteswap(v) == (v % 256) * 256 + (v \div 256)

\* ndarray.tobytes() of one uint16 on the little-endian host
tobytes16(v) == <<v % 256, v \div 256>>

rgb565(px) ==
    LET red == Shl16(BitAnd(px[1], 248), 8)
        green == Shl16(BitAnd(px[2], 252), 3)
        blue == Shr(BitAnd(px[3], 248), 3)
    IN  BitOr(BitOr(red, green), blue)

image_to_data(image, rotation) ==
    LET pb == rot90(image, rotation \div 90)
        w == Cols(pb)
        result == [i \in 1..Rows(pb) |-> [j \in 1..w |-> rgb565(pb[i][j])]]
        swapped == [i \in 1..Rows(pb) |-> [j \in 1..w |-> byteswap(result[i][j])]]
    IN  [k \in 1..(2 * Rows(pb) * w) |->
            LET p == (k - 1) \div 2
            IN  tobytes16(swapped[(p \div w) + 1][(p % w) + 1])[((k - 1) % 2) + 1]]

\* the images the model feeds the encoder and the panel
Palette ==
    << <<\hF8, \hFC, \hF8>>, <<0, 0, 0>>, <<\hF8, 0, 0>>, <<\hFF, \hFF, \hFF>>,
       <<7, 3, 7>>, <<\h12, \h34, \h56>>, <<\h80, \h40, \h20>> >>

GenImage(h, w, s) ==
    [i \in 1..h |-> [j \in 1..w |->
        Palette[((s + (i - 1) * w + (j - 1)) % Len(Palette)) + 1]]]

SmallImages(seeds) ==
    {GenImage(h, w, s) : h \in 1..MaxDim, w \in 1..MaxDim, s \in seeds}

LargeFrame == GenImage(FrameSide, FrameSide, 0)

QuarterTurns == {0, 90, 180, 270}

\* image_to_data of the large frame, computed once
LargeFrameData == [r \in QuarterTurns |-> image_to_data(LargeFrame, r)]

\* image_to_data(image, rotation), read from LargeFrameData for the large frame
Encoded(image, rotation) ==
    IF image = LargeFrame /\ rotation \in QuarterTurns
    THEN LargeFrameData[rotation]
    ELSE image_to_data(image, rotation)

---------------------------------------------------------------------------
(* The platform: RPi.GPIO, spidev and time.sleep.  io is the platform      *)
(* state a call runs in: the pin levels, the trace of platform calls, the  *)
(* number of transfers until the bus fails (0: it does not) and the        *)
(* exception raised so far.                                                *)

Pins == {"dc", "rst", "backlight"}

Event(op, pin, val, bytes, ok) ==
    [op |-> op, pin |-> pin, val |-> val, bytes |-> bytes, ok |-> ok]

\* the level GPIO.output drives for a Python bool
Level(b) == IF b THEN 1 ELSE 0

IO(levels, fuel) == [gpio |-> levels, log |-> <<>>, fuel |-> fuel, exc |-> NoExc]

Raised(io) == io.exc # NoExc

GPIO_setup(io, pin) ==
    IF Raised(io) THEN io
    ELSE [io EXCEPT !.log = Append(@, Event("setup", pin, 0, <<>>, TRUE))]

GPIO_output(io, pin, level) ==
    IF Raised(io) THEN io
    ELSE [io EXCEPT !.gpio[pin] = level,
                    !.log = Append(@, Event("output", pin, level, <<>>, TRUE))]

sleep(io, ms) ==
    IF Raised(io) THEN io
    ELSE [io EXCEPT !.log = Append(@, Event("sleep", "", ms, <<>>, TRUE))]

\* SpiDev.xfer: transfers the bytes, or raises
xfer(io, bytes) ==
    IF Raised(io) THEN io
    ELSE IF io.fuel = 1
         THEN [io EXCEPT !.log = Append(@, Event("xfer", "", 0, bytes, FALSE)),
                         !.exc = IOError]
         ELSE [io EXCEPT !.log = Append(@, Event("xfer", "", 0, bytes, TRUE)),
                         !.fuel = IF @ = 0 THEN 0 ELSE @ - 1]

---------------------------------------------------------------------------
(* class ST7789Display.  self is the record of the instance's fields.      *)

\* the loop of send stopping short of a last, partial chunk
RECURSIVE send_loop_whole_chunks(_, _, _, _)
send_loop_whole_chunks(io, buf, start, chunk_size) ==
    IF start + chunk_size > Len(buf) THEN io
    ELSE LET io1 == xfer(io, SubSeq(buf, start + 1, start + chunk_size))
         IN  IF Raised(io1) THEN io1
             ELSE send_loop_whole_chunks(io1, buf, start + chunk_size, chunk_size)

\* the loop of send trying a failed chunk a second time
RECURSIVE send_loop_retry(_, _, _, _)
send_loop_retry(io, buf, start, chunk_size) ==
    IF start >= Len(buf) THEN io
    ELSE LET end == Min(start + chunk_size, Len(buf))
             io1 == xfer(io, SubSeq(buf, start + 1, end))
             io2 == IF Raised(io1)
                    THEN xfer([io1 EXCEPT !.exc = NoExc, !.fuel = 0],
                              SubSeq(buf, start + 1, end))
                    ELSE io1
         IN  IF Raised(io2) THEN io2
             ELSE send_loop_retry(io2, buf, start + chunk_size, chunk_size)

RECURSIVE send_loop(_, _, _, _)
send_loop(io, buf, start, chunk_size) ==
    IF start >= Len(buf) THEN io
    ELSE LET end == Min(start + chunk_size, Len(buf))
             io1 == xfer(io, SubSeq(buf, start + 1, end))
         IN  IF Raised(io1) THEN io1
             ELSE send_loop(io1, buf, start + chunk_size, chunk_size)

send(self, io, d, is_data, chunk_size) ==
    LET io1 == GPIO_output(io, self._dc, Level(is_data))
        buf == IF d.tag = "Number" THEN <<BitAnd(d.val, 255)>> ELSE d.val
    IN  send_loop(io1, buf, 0, chunk_size)

set_backlight(self, io, value) ==
    IF self._backlight # None
    THEN GPIO_output(io, Value(self._backlight), value)
    ELSE io

\* width treating only rotation 0 as unrotated
width_rotation0(self) ==
    IF self._rotation = 0 THEN self._width ELSE self._height

width(self) ==
    IF self._rotation = 0 \/ self._rotation = 180 THEN self._width ELSE self._height

height(self) ==
    IF self._rotation = 0 \/ self._rotation = 180 THEN self._height ELSE self._width

\* the default of send's chunk_size, and the slice display cuts
ChunkSize == 4096

command(self, io, d) == send(self, io, d, FALSE, ChunkSize)

data(self, io, d) == send(self, io, d, TRUE, ChunkSize)

\* reset leaving the line low after the pulse
reset_held(self, io) ==
    IF self._rst # None
    THEN LET rst == Value(self._rst)
             io1 == sleep(GPIO_output(io, rst, 1), 500)
         IN  sleep(GPIO_output(io1, rst, 0), 500)
    ELSE io

reset(self, io) ==
    IF self._rst # None
    THEN LET rst == Value(self._rst)
             io1 == sleep(GPIO_output(io, rst, 1), 500)
             io2 == sleep(GPIO_output(io1, rst, 0), 500)
         IN  sleep(GPIO_output(io2, rst, 1), 500)
    ELSE io

\* one statement of a straight-line method body
Cmd(v) == [k |-> "command", v |-> v]
Dat(v) == [k |-> "data", v |-> v]
Slp(v) == [k |-> "sleep", v |-> v]

exec(self, io, s) ==
    CASE s.k = "command" -> command(self, io, Number(s.v))
      [] s.k = "data" -> data(self, io, Number(s.v))
      [] s.k = "sleep" -> sleep(io, s.v)

RECURSIVE run(_, _, _, _)
run(self, io, body, i) ==
    IF i > Len(body) THEN io
    ELSE LET io1 == exec(self, io, body[i])
         IN  IF Raised(io1) THEN io1 ELSE run(self, io1, body, i + 1)

\* the branch of _init with its arms exchanged
_init_inversion_exchanged(self) ==
    IF self._invert THEN << Cmd(INVOFF) >> ELSE << Cmd(INVON) >>

\* the one branch of _init
_init_inversion(self) ==
    IF self._invert THEN << Cmd(INVON) >> ELSE << Cmd(INVOFF) >>

_init(self, io) ==
    LET body ==
            << Cmd(SWRESET), Slp(150),
               Cmd(MADCTL), Dat(\h70),
               Cmd(FRMCTR2), Dat(\h0C), Dat(\h0C), Dat(\h00), Dat(\h33), Dat(\h33),
               Cmd(COLMOD), Dat(\h05),
               Cmd(GCTRL), Dat(\h14),
               Cmd(VCOMS), Dat(\h37),
               Cmd(LCMCTRL), Dat(\h2C),
               Cmd(VDVVRHEN), Dat(\h01),
               Cmd(VRHS), Dat(\h12),
               Cmd(VDVS), Dat(\h20),
               Cmd(\hD0), Dat(\hA4), Dat(\hA1),
               Cmd(FRCTRL2), Dat(\h0F),
               Cmd(GMCTRP1),
               Dat(\hD0), Dat(\h04), Dat(\h0D), Dat(\h11), Dat(\h13), Dat(\h2B), Dat(\h3F),
               Dat(\h54), Dat(\h4C), Dat(\h18), Dat(\h0D), Dat(\h0B), Dat(\h1F), Dat(\h23),
               Cmd(GMCTRN1),
               Dat(\hD0), Dat(\h04), Dat(\h0C), Dat(\h11), Dat(\h13), Dat(\h2C), Dat(\h3F),
               Dat(\h44), Dat(\h51), Dat(\h2F), Dat(\h1F), Dat(\h1F), Dat(\h20), Dat(\h23) >>
            \o _init_inversion(self)
            \o << Cmd(SLPOUT), Cmd(DISPON), Slp(100) >>
    IN  run(self, io, body, 1)

\* set_window taking the panel's size, not its last column and row, as default
set_window_size(self, io, x0, y0, x1, y1) ==
    LET x1a == IF x1 = None THEN self._width ELSE Value(x1)
        y1a == IF y1 = None THEN self._height ELSE Value(y1)
        body == << Cmd(CASET),
                   Dat(Shr(x0 + self._offset_left, 8)),
                   Dat(BitAnd(x0 + self._offset_left, 255)),
                   Dat(Shr(x1a + self._offset_left, 8)),
                   Dat(BitAnd(x1a + self._offset_left, 255)),
                   Cmd(RASET),
                   Dat(Shr(y0 + self._offset_top, 8)),
                   Dat(BitAnd(y0 + self._offset_top, 255)),
                   Dat(Shr(y1a + self._offset_top, 8)),
                   Dat(BitAnd(y1a + self._offset_top, 255)),
                   Cmd(RAMWR) >>
    IN  run(self, io, body, 1)

\* set_window adding each offset to the other axis
set_window_swapped_offsets(self, io, x0, y0, x1, y1) ==
    LET x1a == IF x1 = None THEN self._width - 1 ELSE Value(x1)
        y1a == IF y1 = None THEN self._height - 1 ELSE Value(y1)
        body == << Cmd(CASET),
                   Dat(Shr(x0 + self._offset_top, 8)),
                   Dat(BitAnd(x0 + self._offset_top, 255)),
                   Dat(Shr(x1a + self._offset_top, 8)),
                   Dat(BitAnd(x1a + self._offset_top, 255)),
                   Cmd(RASET),
                   Dat(Shr(y0 + self._offset_left, 8)),
                   Dat(BitAnd(y0 + self._offset_left, 255)),
                   Dat(Shr(y1a + self._offset_left, 8)),
                   Dat(BitAnd(y1a + self._offset_left, 255)),
                   Cmd(RAMWR) >>
    IN  run(self, io, body, 1)

set_window(self, io, x0, y0, x1, y1) ==
    LET x1a == IF x1 = None THEN self._width - 1 ELSE Value(x1)
        y1a == IF y1 = None THEN self._height - 1 ELSE Value(y1)
        y0b == y0 + self._offset_top
        y1b == y1a + self._offset_top
        x0b == x0 + self._offset_left
        x1b == x1a + self._offset_left
        body == << Cmd(CASET),
                   Dat(Shr(x0b, 8)), Dat(BitAnd(x0b, 255)),
                   Dat(Shr(x1b, 8)), Dat(BitAnd(x1b, 255)),
                   Cmd(RASET),
                   Dat(Shr(y0b, 8)), Dat(BitAnd(y0b, 255)),
                   Dat(Shr(y1b, 8)), Dat(BitAnd(y1b, 255)),
                   Cmd(RAMWR) >>
    IN  run(self, io, body, 1)

RECURSIVE display_loop(_, _, _, _)
display_loop(self, io, pixel_bytes, i) ==
    IF i >= Len(pixel_bytes) THEN io
    ELSE LET io1 == data(self, io, Buffer(SubSeq(pixel_bytes, i + 1,
                                                 Min(i + ChunkSize, Len(pixel_bytes)))))
         IN  IF Raised(io1) THEN io1
             ELSE display_loop(self, io1, pixel_bytes, i + ChunkSize)

\* display encoding with image_to_data's default rotation
display_unrotated(self, io, image) ==
    LET io1 == set_window(self, io, 0, 0, None, None)
        pixel_bytes == Encoded(image, 0)
    IN  display_loop(self, io1, pixel_bytes, 0)

display(self, io, image) ==
    LET io1 == set_window(self, io, 0, 0, None, None)
        pixel_bytes == Encoded(image, self._rotation)
    IN  display_loop(self, io1, pixel_bytes, 0)

\* the checks of __init__ forgetting rotation 270 in the second
__init__check_90(a) ==
    IF a.rotation \notin {0, 90, 180, 270}
    THEN ValueError("Invalid rotation")
    ELSE IF a.width # a.height /\ a.rotation \in {90}
         THEN ValueError("Invalid rotation for resolution")
         ELSE NoExc

\* the two configuration checks of __init__, in their order
__init__check(a) ==
    IF a.rotation \notin {0, 90, 180, 270}
    THEN ValueError("Invalid rotation")
    ELSE IF a.width # a.height /\ a.rotation \in {90, 270}
         THEN ValueError("Invalid rotation for resolution")
         ELSE NoExc

\* the fields __init__ assigns
__init__fields(a) ==
    [_dc |-> a.dc, _rst |-> a.rst, _width |-> a.width, _height |-> a.height,
     _rotation |-> a.rotation, _invert |-> a.invert,
     _offset_left |-> a.offset_left, _offset_top |-> a.offset_top,
     _backlight |-> a.backlight]

__init__(a, io) ==
    IF __init__check(a) # NoExc THEN [io EXCEPT !.exc = __init__check(a)] ELSE
    LET self == __init__fields(a)
        io1 == GPIO_setup(io, a.dc)
        io2 == IF a.backlight # None
               THEN LET bl == Value(a.backlight)
                    IN  GPIO_output(sleep(GPIO_output(GPIO_setup(io1, bl), bl, 0), 100),
                                    bl, 1)
               ELSE io1
        io3 == IF a.rst # None
               THEN reset(self, GPIO_setup(io2, Value(self._rst)))
               ELSE io2
    IN  _init(self, io3)

---------------------------------------------------------------------------
(* Inputs.                                                                 *)

\* the keyword defaults of __init__
DefaultArgs ==
    [dc |-> "dc", rst |-> None, backlight |-> None, width |-> 240, height |-> 240,
     rotation |-> 90, invert |-> TRUE, offset_left |-> 0, offset_top |-> 0]

ArgSets(sizes, rotations, inverts, lines, offsets) ==
    { [dc |-> "dc", rst |-> l[1], backlight |-> l[2], width |-> wh[1], height |-> wh[2],
       rotation |-> r, invert |-> i, offset_left |-> o[1], offset_top |-> o[2]] :
      wh \in sizes, r \in rotations, i \in inverts, l \in lines, o \in offsets }

OptionalLines == {None, Some("rst")} \X {None, Some("backlight")}

\* every kind of configuration, legal or not
Configs ==
    ArgSets({240, 320} \X {240, 320}, QuarterTurns \cup {45}, BOOLEAN, OptionalLines,
            {<<0, 0>>, <<1, 2>>})

\* the controllers whose life is followed
LifeConfigs ==
    ArgSets({<<240, 240>>, <<240, 320>>}, QuarterTurns, {TRUE},
            {<<None, None>>, <<Some("rst"), Some("backlight")>>}, {<<1, 2>>})

\* configurations that differ in what set_window reads
WindowConfigs ==
    ArgSets({<<240, 320>>}, {0}, {TRUE}, {<<None, None>>}, {0, 80} \X {0, 53})

\* configurations that differ in what display reads
FrameConfigs ==
    ArgSets({<<2, 2>>, <<2, 1>>, <<FrameSide, FrameSide>>}, QuarterTurns, {TRUE},
            {<<None, None>>}, {<<0, 0>>, <<1, 2>>})

\* a buffer of n bytes, all different
GenBuffer(n) == [i \in 1..n |-> (\hA5 + 83 * i) % 256]

Buffers == {Buffer(GenBuffer(n)) : n \in 0..MaxLen}

Numbers == {Number(RAMWR), Number(\h12C)}

\* the 8-bit pixels that take every value in one channel
ChannelPixels ==
    UNION { { <<v, a, b>>, <<a, v, b>>, <<a, b, v>> } :
            v \in 0..255, a \in {0, 255}, b \in {0, 255} }

EncoderInputs ==
    (SmallImages(0..MaxSeed) \cup { <<<<px>>>> : px \in ChannelPixels }) \X QuarterTurns

\* the transfers a call attempts when none fails, and the transfers made to fail
NXfer(l) == Cardinality({i \in 1..Len(l) : l[i].op = "xfer"})

FaultPoints(n) == {0} \cup {k \in 1..n : k <= MaxFault \/ k > n - MaxFault}

---------------------------------------------------------------------------
(* The calls.  A method of the instance runs in the present platform       *)
(* state, with no fault or with one of its transfers failing; Return       *)
(* records what the call left behind.                                      *)

\* the faults to try on a call whose fault-free run is io
Faults(io) == FaultPoints(NXfer(io.log))

Return(name, args, io) ==
    /\ call' = [op |-> name, args |-> args]
    /\ log' = io.log
    /\ gpio' = io.gpio
    /\ exc' = io.exc
    /\ ret' = None
    /\ UNCHANGED <<obj, config>>

Construct(a) ==
    /\ call.op = "import"
    /\ \E f \in Faults(__init__(a, IO(gpio, 0))) :
          LET io == __init__(a, IO(gpio, f))
          IN  /\ call' = [op |-> "__init__", args |-> a]
              /\ log' = io.log
              /\ gpio' = io.gpio
              /\ exc' = io.exc
              /\ ret' = None
              /\ obj' = IF Raised(io) THEN NoObj ELSE __init__fields(a)
              /\ config' = IF Raised(io) THEN NoObj ELSE a

Send(d, is_data, chunk_size) ==
    /\ obj # NoObj
    /\ \E f \in Faults(send(obj, IO(gpio, 0), d, is_data, chunk_size)) :
          Return("send", [data |-> d, is_data |-> is_data, chunk_size |-> chunk_size],
                 send(obj, IO(gpio, f), d, is_data, chunk_size))

Command(d) ==
    /\ obj # NoObj
    /\ \E f \in Faults(command(obj, IO(gpio, 0), d)) :
          Return("command", [data |-> d], command(obj, IO(gpio, f), d))

Data(d) ==
    /\ obj # NoObj
    /\ \E f \in Faults(data(obj, IO(gpio, 0), d)) :
          Return("data", [data |-> d], data(obj, IO(gpio, f), d))

SetBacklight(value) ==
    /\ obj # NoObj
    /\ Return("set_backlight", [value |-> value], set_backlight(obj, IO(gpio, 0), value))

Reset ==
    /\ obj # NoObj
    /\ Return("reset", <<>>, reset(obj, IO(gpio, 0)))

SetWindow(x0, y0, x1, y1) ==
    /\ obj # NoObj
    /\ \E f \in Faults(set_window(obj, IO(gpio, 0), x0, y0, x1, y1)) :
          Return("set_window", [x0 |-> x0, y0 |-> y0, x1 |-> x1, y1 |-> y1],
                 set_window(obj, IO(gpio, f), x0, y0, x1, y1))

Display(image) ==
    /\ obj # NoObj
    /\ \E f \in Faults(display(obj, IO(gpio, 0), image)) :
          Return("display", [image |-> image], display(obj, IO(gpio, f), image))

Property(name, value) ==
    /\ obj # NoObj
    /\ call' = [op |-> name, args |-> <<>>]
    /\ log' = <<>>
    /\ exc' = NoExc
    /\ ret' = Some(value)
    /\ UNCHANGED <<obj, config, gpio>>

Width == Property("width", width(obj))

Height == Property("height", height(obj))

\* the module-level function, applied to the input the initial state holds
ImageToData ==
    /\ call.op = "image_to_data"
    /\ ret = None
    /\ ret' = Some(image_to_data(call.args.image, call.args.rotation))
    /\ UNCHANGED <<obj, config, gpio, call, log, exc>>

---------------------------------------------------------------------------
(* Specifications.                                                         *)

Init ==
    /\ obj = NoObj
    /\ config = NoObj
    /\ gpio \in {[p \in Pins |-> level] : level \in {0, 1}}
    /\ call = [op |-> "import", args |-> <<>>]
    /\ log = <<>>
    /\ exc = NoExc
    /\ ret = None

\* the life of one controller: every method, a few inputs each
Next ==
    \/ \E a \in LifeConfigs : Construct(a)
    \/ \E is_data \in BOOLEAN : Send(Buffer(GenBuffer(3)), is_data, 2)
    \/ Command(Number(RAMWR))
    \/ Data(Buffer(GenBuffer(2)))
    \/ \E value \in {0, 1} : SetBacklight(value)
    \/ Width
    \/ Height
    \/ Reset
    \/ \E w \in {<<0, 0, None, None>>, <<1, 2, Some(\h0102), Some(4)>>} :
          SetWindow(w[1], w[2], w[3], w[4])
    \/ Display(GenImage(1, 2, 0))

Spec == Init /\ [][Next]_vars

\* construction over every kind of configuration
NextInit == \E a \in Configs : Construct(a)

SpecInit == Init /\ [][NextInit]_vars

\* send and its wrappers on the default controller
NextSend ==
    \/ Construct(DefaultArgs)
    \/ \E d \in Buffers \cup Numbers, is_data \in BOOLEAN, c \in 1..MaxChunk :
          Send(d, is_data, c)
    \/ \E d \in Buffers \cup Numbers : Command(d)
    \/ \E d \in Buffers \cup Numbers : Data(d)

SpecSend == Init /\ [][NextSend]_vars

\* set_window over the offsets, with and without its optional bounds
NextWindow ==
    \/ \E a \in WindowConfigs : Construct(a)
    \/ \E x0 \in {0, \h0102}, y0 \in {0, \h0304},
          x1 \in {None, Some(\hFFAF)}, y1 \in {None, Some(\hFFCA)} :
          SetWindow(x0, y0, x1, y1)

SpecWindow == Init /\ [][NextWindow]_vars

\* display of small images and of a frame of more than one chunk
NextFrame ==
    \/ \E a \in FrameConfigs : Construct(a)
    \/ \E image \in SmallImages({0}) \cup {LargeFrame} : Display(image)

SpecFrame == Init /\ [][NextFrame]_vars

\* the pixel encoder on its own
InitEncode ==
    /\ obj = NoObj
    /\ config = NoObj
    /\ gpio = [p \in Pins |-> 0]
    /\ \E in \in EncoderInputs :
          call = [op |-> "image_to_data", args |-> [image |-> in[1], rotation |-> in[2]]]
    /\ log = <<>>
    /\ exc = NoExc
    /\ ret = None

NextEncode == ImageToData

SpecEncode == InitEncode /\ [][NextEncode]_vars

---------------------------------------------------------------------------
(* What the panel sees of a trace: the transfers in order, each with the   *)
(* level the data/command select line had when it was made (-1 when the    *)
(* trace never drove the line before it).                                  *)

MaxOf(S) == CHOOSE x \in S : \A y \in S : y <= x

DcAt(l, i) ==
    LET writes == {j \in 1..(i - 1) : l[j].op = "output" /\ l[j].pin = "dc"}
    IN  IF writes = {} THEN -1 ELSE l[MaxOf(writes)].val

Wire(l) ==
    LET idx == SelectSeq([i \in 1..Len(l) |-> i], LAMBDA i : l[i].op = "xfer")
    IN  [k \in 1..Len(idx) |->
            [dc |-> DcAt(l, idx[k]), bytes |-> l[idx[k]].bytes, ok |-> l[idx[k]].ok]]

\* the GPIO writes of a trace, in order
Writes(l) ==
    LET idx == SelectSeq([i \in 1..Len(l) |-> i], LAMBDA i : l[i].op = "output")
    IN  [k \in 1..Len(idx) |-> <<l[idx[k]].pin, l[idx[k]].val>>]

RECURSIVE Concat(_, _)
Concat(w, from) ==
    IF from > Len(w) THEN <<>> ELSE w[from].bytes \o Concat(w, from + 1)

\* one command byte, one data byte, as the panel must see them
WireCommand(b) == [dc |-> 0, bytes |-> <<b>>, ok |-> TRUE]
WireData(b) == [dc |-> 1, bytes |-> <<b>>, ok |-> TRUE]

\* the window set-up for the inclusive extent x0..x1, y0..y1 (offsets added)
WindowWire(x0, x1, y0, y1) ==
    << WireCommand(CASET),
       WireData(x0 \div 256), WireData(x0 % 256),
       WireData(x1 \div 256), WireData(x1 % 256),
       WireCommand(RASET),
       WireData(y0 \div 256), WireData(y0 % 256),
       WireData(y1 \div 256), WireData(y1 % 256),
       WireCommand(RAMWR) >>

FullPanelWire ==
    WindowWire(config.offset_left, config.width - 1 + config.offset_left,
               config.offset_top, config.height - 1 + config.offset_top)

IsPrefix(s, t) == Len(s) <= Len(t) /\ s = SubSeq(t, 1, Len(s))

---------------------------------------------------------------------------
(* C1, under SpecFrame.  Whatever the image, display first sets up the     *)
(* window for the full configured panel (CASET, RASET, RAMWR) and only     *)
(* then streams pixel bytes: every transfer after the eleven of the window *)
(* set-up is made with the select line high and carries 1..4096 bytes, and *)
(* when display returns the pixel transfers, concatenated in order, are    *)
(* image_to_data(image, configured rotation).                              *)

WindowTransfers == Len(FullPanelWire)

C1_DisplayStreamsAfterWindow ==
    call.op = "display" =>
        LET w == Wire(log)
            head == Min(Len(w), WindowTransfers)
        IN  /\ \A k \in 1..head :
                  /\ w[k].dc = FullPanelWire[k].dc
                  /\ w[k].bytes = FullPanelWire[k].bytes
            /\ \A k \in (WindowTransfers + 1)..Len(w) :
                  /\ w[k].dc = 1
                  /\ Len(w[k].bytes) \in 1..4096
            /\ exc = NoExc =>
                  /\ Len(w) >= WindowTransfers
                  /\ \A k \in 1..Len(w) : w[k].ok
                  /\ Concat(w, WindowTransfers + 1)
                        = image_to_data(call.args.image, config.rotation)

\* a frame of two chunks shown on a rotated panel
C1_Witness ==
    /\ call.op = "display"
    /\ exc = NoExc
    /\ call.args.image = LargeFrame
    /\ config.rotation = 90
    /\ Len(Wire(log)) = WindowTransfers + 2
    /\ Len(Wire(log)[WindowTransfers + 1].bytes) = 4096

---------------------------------------------------------------------------
(* C7, under SpecFrame.  As claimed: for every image display shows, the    *)
(* window it opens holds as many pixels as the image, so the pixel bytes   *)
(* streamed number 2 * window width * window height.                       *)

\* the extent the CASET and RASET parameters of a window set-up spell
WindowColumns(w) ==
    (w[4].bytes[1] * 256 + w[5].bytes[1]) - (w[2].bytes[1] * 256 + w[3].bytes[1]) + 1
WindowRows(w) ==
    (w[9].bytes[1] * 256 + w[10].bytes[1]) - (w[7].bytes[1] * 256 + w[8].bytes[1]) + 1

ImagePixels(image) == Rows(image) * Cols(image)

WindowMatchesImage ==
    LET w == Wire(log)
    IN  /\ WindowColumns(w) * WindowRows(w) = ImagePixels(call.args.image)
        /\ Len(Concat(w, WindowTransfers + 1)) = 2 * WindowColumns(w) * WindowRows(w)

C7_Original ==
    (call.op = "display" /\ exc = NoExc) => WindowMatchesImage

\* C7 as amended: the window matches every image that has as many pixels
\* as the configured panel, width * height
C7_WindowMatchesPanelSizedImage ==
    (/\ call.op = "display"
     /\ exc = NoExc
     /\ ImagePixels(call.args.image) = config.width * config.height)
        => WindowMatchesImage

C7_Witness ==
    /\ call.op = "display"
    /\ exc = NoExc
    /\ config.width = 2 /\ config.height = 1
    /\ Rows(call.args.image) = 1 /\ Cols(call.args.image) = 2
    /\ WindowMatchesImage

---------------------------------------------------------------------------
(* C2, under SpecEncode.  For every RGB image of 8-bit channels and every  *)
(* rotation in {0, 90, 180, 270}, image_to_data(image, rotation) is the    *)
(* reference encoding: the image turned counter-clockwise rotation/90      *)
(* times, then per pixel in row-major order the high and the low byte of   *)
(* (R & 0xF8)<<8 | (G & 0xFC)<<3 | (B & 0xF8)>>3.  In particular           *)
(* (0xF8,0xFC,0xF8) gives FF FF, (0,0,0) gives 00 00 and (0xF8,0,0) gives  *)
(* F8 00.                                                                  *)

\* one quarter turn counter-clockwise: the last column becomes the first row
RefTurn(m) == [i \in 1..Cols(m) |-> [j \in 1..Rows(m) |-> m[j][Cols(m) + 1 - i]]]

RECURSIVE RefRotate(_, _)
RefRotate(m, turns) == IF turns = 0 THEN m ELSE RefRotate(RefTurn(m), turns - 1)

\* the three bit fields do not overlap, so the OR is a sum
RefPixel(px) ==
    (px[1] - (px[1] % 8)) * 256 + (px[2] - (px[2] % 4)) * 8 + (px[3] \div 8)

RECURSIVE RefBytes(_, _, _)
RefBytes(m, i, j) ==
    IF i > Rows(m) THEN <<>>
    ELSE IF j > Cols(m) THEN RefBytes(m, i + 1, 1)
    ELSE <<RefPixel(m[i][j]) \div 256, RefPixel(m[i][j]) % 256>> \o RefBytes(m, i, j + 1)

RefEncode(image, rotation) == RefBytes(RefRotate(image, rotation \div 90), 1, 1)

C2_EncoderMatchesReference ==
    (call.op = "image_to_data" /\ ret # None) =>
        /\ Value(ret) = RefEncode(call.args.image, call.args.rotation)
        /\ call.args.image = <<<< <<248, 252, 248>> >>>> => Value(ret) = <<255, 255>>
        /\ call.args.image = <<<< <<0, 0, 0>> >>>> => Value(ret) = <<0, 0>>
        /\ call.args.image = <<<< <<248, 0, 0>> >>>> => Value(ret) = <<248, 0>>

\* a 2 x 1 image (two columns, one row) of two colours, turned by 90 degrees
C2_Witness ==
    /\ call.op = "image_to_data"
    /\ ret # None
    /\ call.args.rotation = 90
    /\ call.args.image = << << <<248, 0, 0>>, <<255, 255, 255>> >> >>
    /\ Value(ret) = <<255, 255, 248, 0>>

---------------------------------------------------------------------------
(* C3, under SpecWindow.  For coordinates that stay within 16 bits once    *)
(* the offsets are added, set_window(x0, y0, x1, y1) puts on the wire, in  *)
(* this order: CASET as a command, the high and low bytes of               *)
(* x0 + offset_left and of x1 + offset_left as data, RASET as a command,   *)
(* the high and low bytes of y0 + offset_top and of y1 + offset_top as     *)
(* data, RAMWR as a command; an omitted x1 or y1 is the configured         *)
(* width - 1 or height - 1, before the offset is added.                    *)

C3_SetWindowWire ==
    (call.op = "set_window" /\ exc = NoExc) =>
        LET a == call.args
            x1 == IF a.x1 = None THEN config.width - 1 ELSE Value(a.x1)
            y1 == IF a.y1 = None THEN config.height - 1 ELSE Value(a.y1)
        IN  Wire(log) = WindowWire(a.x0 + config.offset_left, x1 + config.offset_left,
                                   a.y0 + config.offset_top, y1 + config.offset_top)

\* x1 omitted, y1 given up to the 16-bit limit, both offsets set
C3_Witness ==
    /\ call.op = "set_window"
    /\ exc = NoExc
    /\ call.args.x1 = None
    /\ call.args.y1 = Some(65482)
    /\ call.args.x0 = 258
    /\ config.offset_left = 80
    /\ config.offset_top = 53
    /\ Wire(log)[4] = WireData(1)
    /\ Wire(log)[5] = WireData(63)
    /\ Wire(log)[9] = WireData(255)

---------------------------------------------------------------------------
(* C4, under SpecSend.  For a buffer of N >= 0 bytes and a chunk_size      *)
(* C >= 1, send(buffer, is_data, C) writes the select line once, to        *)
(* is_data, before any transfer, then makes ceil(N / C) transfers (none    *)
(* when N = 0) of at most C bytes each, which concatenated in order are    *)
(* the buffer.  A number is sent as the one byte number & 0xFF.            *)

C4_SendChunks ==
    (call.op = "send" /\ exc = NoExc) =>
        LET a == call.args
            buffer == IF a.data.tag = "Number" THEN <<a.data.val % 256>> ELSE a.data.val
            N == Len(buffer)
            C == a.chunk_size
            w == Wire(log)
        IN  /\ Writes(log) = << <<"dc", IF a.is_data THEN 1 ELSE 0>> >>
            /\ log[1].op = "output"
            /\ Len(log) = 1 + Len(w)
            /\ Len(w) = (N + C - 1) \div C
            /\ \A k \in 1..Len(w) : Len(w[k].bytes) \in 1..C /\ w[k].ok
            /\ Concat(w, 1) = buffer

\* four bytes in chunks of three: two transfers, the second of one byte
C4_Witness ==
    /\ call.op = "send"
    /\ exc = NoExc
    /\ call.args.data = Buffer(GenBuffer(4))
    /\ call.args.chunk_size = 3
    /\ ~call.args.is_data
    /\ Len(Wire(log)) = 2
    /\ Len(Wire(log)[2].bytes) = 1

---------------------------------------------------------------------------
(* C5, under SpecInit.  Construction fails with the configuration error    *)
(* (a ValueError) exactly when rotation is not one of 0, 90, 180, 270, or  *)
(* rotation is 90 or 270 and width differs from height, and then before    *)
(* any platform call; rotation 45 is rejected, rotation 90 with 240 x 320  *)
(* is rejected, and every other configuration, when no transfer fails,     *)
(* makes a controller holding the configuration.                           *)

Rejected(a) ==
    \/ a.rotation \notin {0, 90, 180, 270}
    \/ a.rotation \in {90, 270} /\ a.width # a.height

C5_ConstructionRejects ==
    call.op = "__init__" =>
        LET a == call.args
        IN  /\ exc.type = "ValueError" <=> Rejected(a)
            /\ a.rotation = 45 => exc.type = "ValueError"
            /\ (a.rotation = 90 /\ a.width = 240 /\ a.height = 320)
                  => exc.type = "ValueError"
            /\ exc.type = "ValueError" => (obj = NoObj /\ log = <<>>)
            /\ (~Rejected(a) /\ exc.type # "IOError") =>
                  /\ exc = NoExc
                  /\ obj # NoObj
                  /\ config = a
                  /\ obj._width = a.width /\ obj._height = a.height
                  /\ obj._rotation = a.rotation /\ obj._invert = a.invert
                  /\ obj._offset_left = a.offset_left /\ obj._offset_top = a.offset_top
                  /\ obj._rst = a.rst /\ obj._backlight = a.backlight

\* rotation 270 of a 320 x 240 panel, rejected
C5_Witness ==
    /\ call.op = "__init__"
    /\ call.args.rotation = 270
    /\ call.args.width = 320
    /\ call.args.height = 240
    /\ exc = ValueError("Invalid rotation for resolution")
    /\ obj = NoObj

---------------------------------------------------------------------------
(* C6, under SpecInit.  A successful construction puts the initialization  *)
(* sequence on the wire in this order, each opcode as a command (select    *)
(* line low) followed by its fixed parameter bytes as data (select line    *)
(* high, one transfer a byte): software reset, memory-access control,      *)
(* frame-rate control, colour mode, gate control, VCOM, the power-control  *)
(* and vendor register writes, positive gamma and negative gamma with 14   *)
(* bytes each, inversion-on when invert is true and inversion-off when it  *)
(* is false, sleep-out, display-on.  Nothing but invert changes it.        *)

InitRegisters(invert) ==
    << <<SWRESET, <<>>>>,
       <<MADCTL, <<112>>>>,
       <<FRMCTR2, <<12, 12, 0, 51, 51>>>>,
       <<COLMOD, <<5>>>>,
       <<GCTRL, <<20>>>>,
       <<VCOMS, <<55>>>>,
       <<LCMCTRL, <<44>>>>,
       <<VDVVRHEN, <<1>>>>,
       <<VRHS, <<18>>>>,
       <<VDVS, <<32>>>>,
       <<208, <<164, 161>>>>,
       <<FRCTRL2, <<15>>>>,
       <<GMCTRP1, <<208, 4, 13, 17, 19, 43, 63, 84, 76, 24, 13, 11, 31, 35>>>>,
       <<GMCTRN1, <<208, 4, 12, 17, 19, 44, 63, 68, 81, 47, 31, 31, 32, 35>>>>,
       <<IF invert THEN INVON ELSE INVOFF, <<>>>>,
       <<SLPOUT, <<>>>>,
       <<DISPON, <<>>>> >>

RECURSIVE RegisterWire(_, _)
RegisterWire(regs, i) ==
    IF i > Len(regs) THEN <<>>
    ELSE << WireCommand(regs[i][1]) >>
         \o [k \in 1..Len(regs[i][2]) |-> WireData(regs[i][2][k])]
         \o RegisterWire(regs, i + 1)

\* the opcodes of a wire trace: the bytes sent with the select line low
Opcodes(w) ==
    LET cmds == SelectSeq(w, LAMBDA t : t.dc = 0)
    IN  [k \in 1..Len(cmds) |-> cmds[k].bytes[1]]

C6_InitSequence ==
    (call.op = "__init__" /\ exc = NoExc) =>
        LET w == Wire(log)
        IN  /\ w = RegisterWire(InitRegisters(call.args.invert), 1)
            /\ Len(Opcodes(w)) = 17
            /\ Opcodes(w)[15] = (IF call.args.invert THEN INVON ELSE INVOFF)
            /\ Len(w) = 17 + 44
            /\ \A k \in 1..Len(w) : Len(w[k].bytes) = 1 /\ w[k].dc \in {0, 1}

\* a panel built without inversion, on lines that started high
C6_Witness ==
    /\ call.op = "__init__"
    /\ exc = NoExc
    /\ ~call.args.invert
    /\ call.args.rst # None
    /\ INVOFF \in {Opcodes(Wire(log))[k] : k \in 1..17}
    /\ INVON \notin {Opcodes(Wire(log))[k] : k \in 1..17}

---------------------------------------------------------------------------
(* C8, under Spec.  After any sequence of calls on a constructed           *)
(* controller its fields still hold the geometry, rotation and offsets it  *)
(* was constructed with, and the accessors width and height return the     *)
(* configured width and height at rotation 0 or 180 and the configured     *)
(* height and width at rotation 90 or 270.                                 *)

C8_ReportedGeometry ==
    obj # NoObj =>
        /\ obj._width = config.width /\ obj._height = config.height
        /\ obj._rotation = config.rotation
        /\ obj._offset_left = config.offset_left /\ obj._offset_top = config.offset_top
        /\ call.op = "width" =>
              ret = Some(IF config.rotation \in {0, 180}
                         THEN config.width ELSE config.height)
        /\ call.op = "height" =>
              ret = Some(IF config.rotation \in {0, 180}
                         THEN config.height ELSE config.width)

\* the width of a 240 x 320 panel turned by 180 degrees
C8_Witness ==
    /\ call.op = "width"
    /\ config.rotation = 180
    /\ config.width = 240 /\ config.height = 320
    /\ ret = Some(240)

---------------------------------------------------------------------------
(* C9, under Spec.  When a transfer fails during a call, the call ends at  *)
(* once with that failure: the failed transfer is the last platform call   *)
(* of the call and is made once, the caller sees the exception, and what   *)
(* came before it is what the call does when nothing fails, once and in    *)
(* order.  A construction that fails yields no controller.                 *)

\* the trace of the last call had no transfer failed
FaultFree ==
    LET a == call.args
        io == IO(gpio, 0)
    IN  CASE call.op = "__init__" -> __init__(a, io).log
          [] call.op = "send" -> send(obj, io, a.data, a.is_data, a.chunk_size).log
          [] call.op = "command" -> command(obj, io, a.data).log
          [] call.op = "data" -> data(obj, io, a.data).log
          [] call.op = "set_backlight" -> set_backlight(obj, io, a.value).log
          [] call.op = "reset" -> reset(obj, io).log
          [] call.op = "set_window" -> set_window(obj, io, a.x0, a.y0, a.x1, a.y1).log
          [] call.op = "display" -> display(obj, io, a.image).log
          [] OTHER -> <<>>

Failed(l) == {i \in 1..Len(l) : l[i].op = "xfer" /\ ~l[i].ok}

C9_FailureEndsTheCall ==
    /\ Failed(log) # {} <=> exc = IOError
    /\ exc = IOError =>
          /\ Failed(log) = {Len(log)}
          /\ Len(log) <= Len(FaultFree)
          /\ SubSeq(log, 1, Len(log) - 1) = SubSeq(FaultFree, 1, Len(log) - 1)
          /\ log[Len(log)] = [FaultFree[Len(log)] EXCEPT !.ok = FALSE]
          /\ call.op = "__init__" => obj = NoObj

\* display failing on its pixel transfer, after the window set-up
C9_Witness ==
    /\ call.op = "display"
    /\ exc = IOError
    /\ Len(Wire(log)) = WindowTransfers + 1
    /\ ~Wire(log)[WindowTransfers + 1].ok
    /\ Wire(log)[WindowTransfers + 1].dc = 1

---------------------------------------------------------------------------
(* C10, under Spec.  reset needs no particular state and repeats without   *)
(* effect: with no reset line it makes no platform call; with one it       *)
(* writes the line high, low, high, writes no other line and transfers     *)
(* nothing, so the line ends high whatever its level was, and a second     *)
(* reset leaves every line at the level the first left it.                 *)

ResetPulse(line) == << <<line, 1>>, <<line, 0>>, <<line, 1>> >>

C10_ResetStep ==
    /\ call'.op = "reset" =>
          /\ exc' = NoExc
          /\ obj._rst = None => (log' = <<>> /\ gpio' = gpio)
          /\ obj._rst # None =>
                /\ Writes(log') = ResetPulse(Value(obj._rst))
                /\ NXfer(log') = 0
                /\ gpio' = [gpio EXCEPT ![Value(obj._rst)] = 1]
          /\ call.op = "reset" => gpio' = gpio
          /\ reset(obj, IO(gpio', 0)).gpio = gpio'
    /\ (call'.op = "__init__" /\ call'.args.rst # None /\ exc'.type # "ValueError") =>
          /\ gpio'[Value(call'.args.rst)] = 1
          /\ Writes(SelectSeq(log', LAMBDA e : e.pin = Value(call'.args.rst)))
                = ResetPulse(Value(call'.args.rst))

C10_ResetIdempotent == [][C10_ResetStep]_vars

\* reset called on a controller with a reset line and a backlight
C10_Witness ==
    /\ call.op = "reset"
    /\ obj._rst = Some("rst")
    /\ obj._backlight = Some("backlight")
    /\ Writes(log) = ResetPulse("rst")
    /\ gpio["rst"] = 1

===========================================================================
